---------------------------- MODULE Spec2Model ----------------------------
(***************************************************************************)
(* The position lifecycle manager of the futures bot: the in-memory        *)
(* ledger (_STATE, _ENTRY_PRICE, _ORIG_QTY), place_order as driven by      *)
(* trade_cycle (or called directly), and the supervisor sweep              *)
(* manage_open_positions.  The two tasks run on one asyncio loop and can   *)
(* interleave at every await.  The ledger is all they share, so a step of  *)
(* the model runs one task from one access of the ledger to its next one:  *)
(* awaits in between, which neither read nor write the ledger, commute     *)
(* with the other task's steps and get no step of their own.  For the same *)
(* reason the trade cycle's step after place_order's return, which only    *)
(* logs, is taken before the sweep's next step.  The sweep has no await    *)
(* from the top of its position loop to the rules' first broker call, so   *)
(* place_order takes no step there.                                        *)
(*                                                                         *)
(* Units: confidences in 1e-5 (0.95 = 95000), decayed confidences in 1e-3, *)
(* ages in hours.  The broker (positions, order acceptance, prices) and    *)
(* the signal feed are the environment: their answers are drawn with \E.   *)
(* Logging (log_event, log_outcome) is assumed not to fail.                *)
(*                                                                         *)
(* Five specifications share the module.  Spec is the ledger with one      *)
(* trade cycle and one sweep.  SchedSpec is main.py's startup, scheduler   *)
(* and halt command, with each trade_cycle invocation reduced to its       *)
(* flag test, fetch and place_order calls.  JanitorSpec is                 *)
(* refresh_stale_orders over the open orders the broker lists.  TierSpec   *)
(* takes one confidence value through fetch_signals' threshold and the     *)
(* tier table.  DirSpec takes one side flag through _direction.  The       *)
(* variables of the other parts stay at their idle values in each of them. *)
(***************************************************************************)
EXTENDS Integers, Sequences, FiniteSets, TLC

\* ------------------------------------------------------------------ bounds
\* Longest raw feed the signal endpoint answers with.
MaxSignals == 2
\* place_order calls that return within one trade_cycle invocation of SchedSpec
MaxOpened == 2
\* open orders refresh_stale_orders gets from the broker
MaxOrders == 2
\* the confidence values of TierSpec, in 1e-5
MinConf == 59990
MaxConf == 100010

\* ------------------------------------------------------- program constants
\* fetch_signals(limit=50)
Limit == 50
\* _threshold(): CONF_THRESHOLD default 0.60
ConfThreshold == 60000
\* manage_open_positions(ttl_hours=6, min_conf=0.4); decayed_conf half life 6 h
ttl_hours == 6
min_conf == 400
\* TP1_FRAC = 0.5 and the 0.05 tolerance of the TP1 test, in percent
TP1_FRAC == 50
TP1_TOL == 5
\* refresh_stale_orders: the default of max_age_min, in minutes
max_age_min == 15

Symbols == {"BTCUSDT", "ETHUSDT"}
\* futures_position_information() lists every symbol, in the venue's order
PositionSymbols == <<"BTCUSDT", "ETHUSDT">>

\* ------------------------------------------------------------ environment
\* side flags the feed may carry
FeedSides == {<<"B", "U", "Y">>, <<"s", "h", "o", "r", "t">>, <<"f", "o", "o">>}
\* confidences of raw feed items: the market tier, the gap between the two
\* lowest tiers, and one below the feed threshold
RawConfs == {97000, 69995, 50000}
MarkPrices == {100, 101}
\* avgPrice in the response to a market entry order: none, or the fill price
AvgPrices == {0, 102}
Quantities == {20}
\* positionAmt of a broker position (signed), and its age in hours
Amounts == {0, 9, 20, -20}
Ages == {5, 6}
\* values of the flip_threshold parameter (0.6 is the default)
FlipThresholds == {60000, 95000}

\* ------------------------------------------------------------- direction
\* side flags are sequences of characters
_VALID_LONG_FLAGS ==
    {<<"L", "O", "N", "G">>, <<"B", "U", "Y">>,
     <<"B", "U", "L", "L">>, <<"B", "U", "L", "L", "I", "S", "H">>}
_VALID_SHORT_FLAGS ==
    {<<"S", "H", "O", "R", "T">>, <<"S", "E", "L", "L">>,
     <<"B", "E", "A", "R">>, <<"B", "E", "A", "R", "I", "S", "H">>}

LowerCase == <<"a", "b", "c", "d", "e", "f", "g", "h", "i", "j", "k", "l", "m", "n", "o", "p", "q", "r", "s", "t", "u", "v", "w", "x", "y", "z">>
UpperCase == <<"A", "B", "C", "D", "E", "F", "G", "H", "I", "J", "K", "L", "M", "N", "O", "P", "Q", "R", "S", "T", "U", "V", "W", "X", "Y", "Z">>

\* str.upper() of one character: a lower-case letter becomes its capital,
\* any other character stays
UpperChar(ch) ==
    IF \E i \in 1..Len(LowerCase) : LowerCase[i] = ch
    THEN UpperCase[CHOOSE i \in 1..Len(LowerCase) : LowerCase[i] = ch]
    ELSE ch

\* str.upper()
upper(flag) == [i \in 1..Len(flag) |-> UpperChar(flag[i])]

\* the flag argument when the caller has none (Python's None)
MissingFlag == <<"None">>

\* `flag or ""`
or_empty(flag) == IF flag = MissingFlag THEN <<>> ELSE flag

\* a faulty variant of _direction: the flag is compared as it is written
DirectionAsWritten(flag) ==
    LET f == or_empty(flag) IN
    IF f \in _VALID_LONG_FLAGS THEN "LONG"
    ELSE IF f \in _VALID_SHORT_FLAGS THEN "SHORT"
    ELSE "None"

\* 'LONG', 'SHORT', or "None" for an unknown flag
_direction(flag) ==
    LET f == upper(or_empty(flag)) IN
    IF f \in _VALID_LONG_FLAGS THEN "LONG"
    ELSE IF f \in _VALID_SHORT_FLAGS THEN "SHORT"
    ELSE "None"

\* ------------------------------------------------------------------ tiers
\* (lo, hi, leverage, pos_pct [1e-2], tp_pct [1e-3], order_type, offset [1e-4], ttl_min)
_TIERS == <<
    [lo |-> 95000, hi |-> 100000, leverage |-> 10, pos_pct |-> 12, tp_pct |-> 30,
     order_type |-> "market", offset_pct |-> 0, ttl_min |-> 0],
    [lo |-> 90000, hi |-> 94990, leverage |-> 10, pos_pct |-> 9, tp_pct |-> 25,
     order_type |-> "limit", offset_pct |-> -15, ttl_min |-> 3],
    [lo |-> 85000, hi |-> 89990, leverage |-> 7, pos_pct |-> 7, tp_pct |-> 21,
     order_type |-> "limit", offset_pct |-> -30, ttl_min |-> 10],
    [lo |-> 80000, hi |-> 84990, leverage |-> 7, pos_pct |-> 7, tp_pct |-> 18,
     order_type |-> "limit", offset_pct |-> -50, ttl_min |-> 10],
    [lo |-> 70000, hi |-> 79990, leverage |-> 5, pos_pct |-> 5, tp_pct |-> 16,
     order_type |-> "limit", offset_pct |-> -75, ttl_min |-> 10],
    [lo |-> 60000, hi |-> 69990, leverage |-> 3, pos_pct |-> 3, tp_pct |-> 13,
     order_type |-> "limit", offset_pct |-> -100, ttl_min |-> 15] >>

\* the tier dict _select_tier builds from a row; NoTier stands for None
TierOf(row) ==
    [leverage |-> row.leverage, pos_pct |-> row.pos_pct, tp_pct |-> row.tp_pct,
     order_type |-> row.order_type, offset_pct |-> row.offset_pct,
     ttl_min |-> row.ttl_min]

NoTier ==
    [leverage |-> 0, pos_pct |-> 0, tp_pct |-> 0, order_type |-> "None",
     offset_pct |-> 0, ttl_min |-> 0]

\* a faulty variant of _select_tier: the lower bound of a range is left out
SelectAboveLo(conf) ==
    LET hits == {i \in 1..Len(_TIERS) : _TIERS[i].lo < conf /\ conf <= _TIERS[i].hi} IN
    IF hits = {} THEN NoTier
    ELSE TierOf(_TIERS[CHOOSE i \in hits : \A j \in hits : i <= j])

\* first row, in table order, whose inclusive [lo, hi] holds conf
_select_tier(conf) ==
    LET hits == {i \in 1..Len(_TIERS) : _TIERS[i].lo <= conf /\ conf <= _TIERS[i].hi} IN
    IF hits = {} THEN NoTier
    ELSE TierOf(_TIERS[CHOOSE i \in hits : \A j \in hits : i <= j])

risk_check(s) == _select_tier(s.confidence)

\* ------------------------------------------------------------ signal feed
RawSignals == [symbol : Symbols, side : FeedSides, confidence : RawConfs]
RawFeeds == UNION {[1..n -> RawSignals] : n \in 0..MaxSignals}

\* valid.sort(key=confidence, reverse=True): stable, equal keys keep their order
RECURSIVE InsertDesc(_, _)
InsertDesc(sorted, x) ==
    IF sorted = <<>> THEN <<x>>
    ELSE IF Head(sorted).confidence >= x.confidence
         THEN <<Head(sorted)>> \o InsertDesc(Tail(sorted), x)
         ELSE <<x>> \o sorted

RECURSIVE SortDesc(_)
SortDesc(s) ==
    IF s = <<>> THEN <<>>
    ELSE InsertDesc(SortDesc(SubSeq(s, 1, Len(s) - 1)), s[Len(s)])

\* all signals >= threshold, sorted high -> low confidence, at most Limit
fetch_signals(data) ==
    LET valid == SelectSeq(data, LAMBDA sig_ : sig_.confidence >= ConfThreshold)
        sorted == SortDesc(valid)
    IN SubSeq(sorted, 1, IF Len(sorted) < Limit THEN Len(sorted) ELSE Limit)

FetchResults == {fetch_signals(data) : data \in RawFeeds}

NoSignal == [symbol |-> "", side |-> <<>>, confidence |-> 0]

\* ------------------------------------------------------------- the sweep's rules
\* sig_map[s.symbol] = (dir_, s.confidence) for every signal with a known
\* direction, later list entries overwriting earlier ones; NoSig stands for
\* a symbol without entry
NoSig == [side |-> "None", conf |-> 0]

RECURSIVE sig_map(_)
sig_map(signals_) ==
    IF signals_ = <<>> THEN [s \in Symbols |-> NoSig]
    ELSE LET rest == sig_map(SubSeq(signals_, 1, Len(signals_) - 1))
             last == signals_[Len(signals_)]
             dir_ == _direction(last.side)
         IN IF dir_ # "None"
            THEN [rest EXCEPT ![last.symbol] = [side |-> dir_, conf |-> last.confidence]]
            ELSE rest

SigMaps == {sig_map(l) : l \in FetchResults}

\* what the signal loops can meet: the lengths of a fetched list, its elements
FetchedLengths == {Len(l) : l \in FetchResults}
FetchedSignals == UNION {{l[i] : i \in 1..Len(l)} : l \in FetchResults}

\* 0.5 ** (hours / 6.0), in 1e-4, for the ages the model draws
DecayFactor(hours) ==
    CASE hours = 0 -> 10000
      [] hours = 1 -> 8909
      [] hours = 4 -> 6300
      [] hours = 5 -> 5612
      [] hours = 6 -> 5000
      [] hours = 7 -> 4454
      [] hours = 8 -> 3969

\* round(conf * decay_factor, 3), in 1e-3 (conf is in 1e-5, the factor in 1e-4)
decayed_conf(conf, hours) ==
    (conf * DecayFactor(hours) + 500000) \div 1000000

Abs(x) == IF x < 0 THEN -x ELSE x

\* "LONG" if amt > 0 else "SHORT"
PositionSide(amt) == IF amt > 0 THEN "LONG" ELSE "SHORT"

\* enums.SIDE_SELL if amt > 0 else enums.SIDE_BUY
CloseSide(amt) == IF amt > 0 THEN "SELL" ELSE "BUY"


\* ------------------------------------------------------------------ state
VARIABLES
    _STATE,         \* symbol -> PositionState value, "None" when the map has no entry
    _ENTRY_PRICE,   \* symbol -> price, 0 when the map has no entry
    _ORIG_QTY,      \* symbol -> quantity, 0 when the map has no entry
    PARTIAL_TP,     \* the PARTIAL_TP setting, read once at import
    tc_pc,          \* where the trade cycle / place_order stands
    caller,         \* "cycle": place_order runs for trade_cycle; "direct": called directly
    remaining,      \* trade_cycle: how many fetched signals the loop has not reached yet
    signal,         \* place_order: its signal argument
    errors,         \* place_order: errors of the protective orders, in order ("SL", "TP")
    entry_resp,     \* place_order: avgPrice of the entry order's response, 0 without one
    pcalls,         \* broker calls place_order made before its duplicate guard
    porders,        \* orders place_order sent, in order
    pres,           \* how place_order ended: "ok", "blocked", or the error raised
    sw_pc,          \* where the sweep stands
    flip_threshold, \* manage_open_positions: its flip_threshold argument, held while
                    \* the rules of a position read it
    idx,            \* index into positions of the position at hand
    p,              \* the position at hand: symbol, positionAmt, age in hours
    sig,            \* sig_map.get(symbol) for the position at hand
    reason,         \* the closure reason chosen for the position at hand
    entry_price,    \* the local entry_price of the break-even step (line 379)
    opp_side,       \* the local opp_side ("unbound" until line 418 assigns it)
    closed,         \* whether the sweep's client connection was closed (line 460)
    slog,           \* events logged and broker calls sent for the position at hand
    event,          \* the POSITION_CLOSED event of the position at hand
    trading_enabled,\* the global trading_enabled of main.py
    started,        \* whether startup() has run
    direct_pending, \* the task startup() created for trade_cycle has not begun yet
    cycle_pc,       \* per trade_cycle invocation (scheduled job, direct task): where it stands
    opened,         \* per trade_cycle invocation: its local counter opened
    running,        \* per scheduled job: the instances the scheduler has running
    open_orders,    \* refresh_stale_orders: the orders futures_get_open_orders returned
    j_pc,           \* where refresh_stale_orders stands
    j_idx,          \* refresh_stale_orders: index of the order at hand
    cancels,        \* refresh_stale_orders: the orders it asked the broker to cancel
    t_conf,         \* a confidence value handed to _select_tier
    t_pc,           \* where the confidence value stands: emitted, valid, dropped, selected
    tier,           \* what _select_tier returned for it
    d_flag,         \* a side flag handed to _direction
    d_pc,           \* whether _direction was called with it
    d_dir           \* what _direction returned for it

ledger == <<_STATE, _ENTRY_PRICE, _ORIG_QTY>>
tcvars == <<tc_pc, caller, remaining, signal, errors, entry_resp, pcalls, porders,
           pres>>
swvars == <<sw_pc, flip_threshold, idx, p, sig, reason, entry_price, opp_side, closed,
            slog, event>>
schedvars == <<trading_enabled, started, direct_pending, cycle_pc, opened, running>>
janvars == <<open_orders, j_pc, j_idx, cancels>>
tiervars == <<t_conf, t_pc, tier>>
dirvars == <<d_flag, d_pc, d_dir>>
\* what the trade cycle and the sweep of Spec leave alone besides their own state
others == <<schedvars, janvars, tiervars, dirvars>>
vars == <<_STATE, _ENTRY_PRICE, _ORIG_QTY, PARTIAL_TP, tc_pc, caller, remaining, signal,
          errors, entry_resp, pcalls, porders, pres, sw_pc, flip_threshold, idx, p, sig,
          reason, entry_price, opp_side, closed, slog, event,
          trading_enabled, started, direct_pending, cycle_pc, opened, running,
          open_orders, j_pc, j_idx, cancels, t_conf, t_pc, tier, d_flag, d_pc, d_dir>>

core == <<ledger, PARTIAL_TP, tcvars, swvars>>

\* the two ways startup() runs trade_cycle: the interval job and the task it
\* creates directly
CycleTasks == {"scheduled", "direct"}
\* the other interval jobs of startup()
Jobs == {"close_stale_positions", "manage_open_positions", "refresh_stale_orders"}

NoPosition == [symbol |-> "", amt |-> 0, age |-> 0]
NoEvent == [symbol |-> "", reason |-> "", close_accepted |-> FALSE]

\* the ledger, the trade cycle and the sweep before anything ran
CoreIdle ==
    /\ _STATE = [s \in Symbols |-> "None"]
    /\ _ENTRY_PRICE = [s \in Symbols |-> 0]
    /\ _ORIG_QTY = [s \in Symbols |-> 0]
    /\ tc_pc = "idle"
    /\ caller = "cycle"
    /\ remaining = 0
    /\ signal = NoSignal
    /\ errors = <<>>
    /\ entry_resp = 0
    /\ pcalls = <<>>
    /\ porders = <<>>
    /\ pres = "none"
    /\ sw_pc = "idle"
    /\ flip_threshold = 0
    /\ idx = 0
    /\ p = NoPosition
    /\ sig = NoSig
    /\ reason = ""
    /\ entry_price = 0
    /\ opp_side = "unbound"
    /\ closed = FALSE
    /\ slog = <<>>
    /\ event = NoEvent

\* the scheduler's view while the application is up and enabled
SchedIdle ==
    /\ trading_enabled = TRUE
    /\ started = TRUE
    /\ direct_pending = FALSE
    /\ cycle_pc = [t \in CycleTasks |-> "none"]
    /\ opened = [t \in CycleTasks |-> 0]
    /\ running = [j \in Jobs |-> 0]

\* refresh_stale_orders not running
JanitorIdle ==
    /\ open_orders = <<>>
    /\ j_pc = "idle"
    /\ j_idx = 0
    /\ cancels = <<>>

\* no confidence value under way
TierIdle ==
    /\ t_conf = 0
    /\ t_pc = "none"
    /\ tier = NoTier

\* no side flag under way
DirIdle ==
    /\ d_flag = <<>>
    /\ d_pc = "none"
    /\ d_dir = "None"

Init ==
    /\ CoreIdle
    /\ PARTIAL_TP \in BOOLEAN
    /\ SchedIdle
    /\ JanitorIdle
    /\ TierIdle
    /\ DirIdle

\* ------------------------------------------------------------ place_order
\* the sweep is not between the top of its loop and a rule's first broker call
SweepAtAwait == sw_pc \notin {"next", "eval"}

\* the broker calls of place_order's sizing section, in order
SizingCalls ==
    <<"futures_change_leverage", "futures_account_balance", "futures_mark_price",
      "futures_exchange_info">>

\* the duplicate guard: _get_state(symbol) in {OPENING, CLOSING}
Blocked(state) == state \in {"opening", "closing"}

\* the entry order of a tier: MARKET for a market tier, else LIMIT
EntryOrder(t, dir_) ==
    [type |-> IF t.order_type = "market" THEN "MARKET" ELSE "LIMIT",
     side |-> IF dir_ = "LONG" THEN "BUY" ELSE "SELL"]

\* a protective order: the opposite side of the entry
ProtectiveOrder(type_, dir_) ==
    [type |-> type_, side |-> IF dir_ = "LONG" THEN "SELL" ELSE "BUY"]

\* place_order ends: it returns res ("ok", "blocked") or raises res
PlaceEnds(res) ==
    /\ tc_pc' = "returned"
    /\ pres' = res

\* place_order(s, t) from its start to the request of the entry order:
\* leverage and sizing calls (one that raises ends place_order), the ledger's
\* entry details, the direction check, the duplicate guard, OPENING, the entry
\* order
place_order_begin(s, t) ==
    /\ signal' = s
    /\ \/ \E k \in 1..Len(SizingCalls) :
             /\ pcalls' = SubSeq(SizingCalls, 1, k)
             /\ PlaceEnds("BrokerError")
             /\ UNCHANGED <<ledger, porders>>
       \/ \E mark_price \in MarkPrices, qty \in Quantities :
             /\ pcalls' = SizingCalls
             /\ _ENTRY_PRICE' = [_ENTRY_PRICE EXCEPT ![s.symbol] = mark_price]
             /\ _ORIG_QTY' = [_ORIG_QTY EXCEPT ![s.symbol] = qty]
             /\ IF _direction(s.side) = "None"
                THEN /\ PlaceEnds("ValueError")
                     /\ UNCHANGED <<_STATE, porders>>
                ELSE IF Blocked(_STATE[s.symbol])
                THEN /\ PlaceEnds("blocked")
                     /\ UNCHANGED <<_STATE, porders>>
                ELSE /\ _STATE' = [_STATE EXCEPT ![s.symbol] = "opening"]
                     /\ porders' = <<EntryOrder(t, _direction(s.side))>>
                     /\ tc_pc' = "entry"
                     /\ UNCHANGED pres
    /\ UNCHANGED <<errors, entry_resp>>

\* a faulty variant of FirstError: the last protective error is raised
LastError(errs) == IF errs[Len(errs)] = "SL" THEN "SLError" ELSE "TPError"

\* raise errors[0]
FirstError(errs) == IF errs[1] = "SL" THEN "SLError" ELSE "TPError"

\* a faulty variant of ProtectiveOrders: the take-profit order goes out first
TakeProfitFirst(dir_, tp) ==
    (IF tp = "unsent" THEN <<>> ELSE <<ProtectiveOrder("TAKE_PROFIT_MARKET", dir_)>>)
      \o <<ProtectiveOrder("STOP_MARKET", dir_)>>

\* the protective orders place_order sends, in order: the stop order, then the
\* order of the take-profit block; tp is "ok" or "rejected" for the answer of
\* that order, "unsent" when rounding the TP1 quantity raised before it
ProtectiveOrders(dir_, tp) ==
    <<ProtectiveOrder("STOP_MARKET", dir_)>>
      \o (IF tp = "unsent" THEN <<>> ELSE <<ProtectiveOrder("TAKE_PROFIT_MARKET", dir_)>>)

\* errors after both try blocks
ProtectiveErrors(sl_ok, tp) ==
    (IF sl_ok THEN <<>> ELSE <<"SL">>) \o (IF tp = "ok" THEN <<>> ELSE <<"TP">>)

\* place_order from the entry order's answer to its end.  A rejected entry
\* raises, and so does a failure of an exchange-info lookup: the one that
\* rounds a limit price, before the entry order goes out, or the one that
\* rounds the protective prices (the first branch).  Else the stop order and
\* then the take-profit block are run, each in its own try; with PARTIAL_TP
\* the block first rounds the TP1 quantity (exchange info).  Any protective
\* error raises the first one, else the state becomes ACTIVE.
place_order_finish ==
    /\ tc_pc = "entry"
    /\ SweepAtAwait
    /\ \/ /\ PlaceEnds("BrokerError")
          /\ \E sent \in {TRUE} \cup (IF porders[1].type = "LIMIT" THEN {FALSE} ELSE {}) :
                porders' = IF sent THEN porders ELSE <<>>
          /\ UNCHANGED <<ledger, errors, entry_resp>>
       \/ \E sl_ok \in BOOLEAN,
             tp \in {"ok", "rejected"} \cup (IF PARTIAL_TP THEN {"unsent"} ELSE {}),
             avg \in (IF porders[1].type = "MARKET" THEN AvgPrices ELSE {0}) :
             /\ entry_resp' = avg
             /\ porders' = porders \o ProtectiveOrders(_direction(signal.side), tp)
             /\ errors' = ProtectiveErrors(sl_ok, tp)
             /\ IF errors' # <<>>
                THEN /\ PlaceEnds(FirstError(errors'))
                     /\ UNCHANGED ledger
                ELSE /\ _STATE' = [_STATE EXCEPT ![signal.symbol] = "active"]
                     /\ PlaceEnds("ok")
                     /\ UNCHANGED <<_ENTRY_PRICE, _ORIG_QTY>>
    /\ UNCHANGED <<caller, remaining, signal, pcalls>>
    /\ UNCHANGED <<PARTIAL_TP, others, swvars>>

\* place_order called by another caller than trade_cycle
DirectSignals == [symbol : Symbols, side : FeedSides, confidence : {97000}]
DirectTiers == {_select_tier(97000), _select_tier(65000)}

place_order_direct ==
    /\ tc_pc = "idle"
    /\ SweepAtAwait
    /\ \E s \in DirectSignals, t \in DirectTiers : place_order_begin(s, t)
    /\ caller' = "direct"
    /\ UNCHANGED remaining
    /\ UNCHANGED <<PARTIAL_TP, others, swvars>>

\* ------------------------------------------------------------ trade cycle
\* trade_cycle up to the signal loop: fetch the signals, return when there are
\* none.  The list's elements are drawn as the loop reaches them.
trade_cycle_start ==
    /\ tc_pc = "idle"
    /\ SweepAtAwait
    /\ trading_enabled
    /\ \E n \in FetchedLengths \ {0} : remaining' = n
    /\ tc_pc' = "loop"
    /\ caller' = "cycle"
    /\ UNCHANGED <<signal, errors, entry_resp, pcalls, porders, pres>>
    /\ UNCHANGED <<ledger, PARTIAL_TP, others, swvars>>

\* one turn of `for signal in signals`: skip an unknown side or a missing
\* tier, else call place_order; the cycle ends when the list is used up.
\* With MaxSignals < 10 the `opened >= 10` break is never taken.
trade_cycle_next ==
    /\ tc_pc = "loop"
    /\ SweepAtAwait
    /\ IF remaining = 0
       THEN /\ tc_pc' = "idle"
            /\ UNCHANGED <<remaining, signal, errors, entry_resp, pcalls, porders, pres,
                           ledger>>
       ELSE /\ remaining' = remaining - 1
            /\ \E s \in FetchedSignals :
                  IF _direction(s.side) = "None" \/ risk_check(s) = NoTier
                  THEN UNCHANGED <<tc_pc, signal, errors, entry_resp, pcalls, porders, pres,
                                   ledger>>
                  ELSE place_order_begin(s, risk_check(s))
    /\ UNCHANGED caller
    /\ UNCHANGED <<PARTIAL_TP, others, swvars>>

\* trade_cycle after place_order: a result is logged and the loop goes on; an
\* exception leaves the loop for the except/finally clauses and ends the cycle
trade_cycle_resume ==
    /\ tc_pc = "returned"
    /\ IF caller = "cycle" /\ pres \in {"ok", "blocked"}
       THEN /\ tc_pc' = "loop"
            /\ UNCHANGED remaining
       ELSE /\ tc_pc' = "idle"
            /\ remaining' = 0
    /\ signal' = NoSignal
    /\ errors' = <<>>
    /\ entry_resp' = 0
    /\ pcalls' = <<>>
    /\ porders' = <<>>
    /\ pres' = "none"
    /\ caller' = "cycle"
    /\ UNCHANGED <<ledger, PARTIAL_TP, others, swvars>>

\* ------------------------------------------------------------ the sweep
Log(kind) == [kind |-> kind, side |-> "", price |-> 0]
Order(kind, side, price) == [kind |-> kind, side |-> side, price |-> price]

\* answers a broker call of the sweep can get: a closed client connection
\* (close_connection, line 460) fails every later call
Answers == IF closed THEN {FALSE} ELSE BOOLEAN

\* a faulty variant of TimeStop: a position of exactly ttl_hours is kept
TimeStopPast(pos) == pos.age > ttl_hours

\* 1) hard time-stop
TimeStop(pos) == pos.age >= ttl_hours

\* a faulty variant of SignalFlip: any opposite signal flips
FlipAnyConfidence(pos, sg, flip) == sg.side # PositionSide(pos.amt)

\* 2) signal flip
SignalFlip(pos, sg, flip) == sg.side # PositionSide(pos.amt) /\ sg.conf >= flip

\* TP1 assumed filled: partial ladder on, ledger ACTIVE, and the remaining
\* amount at most orig_qty * (1 - TP1_FRAC + 0.05)
Tp1Hit(partial, state, orig_qty, amt) ==
    /\ partial
    /\ state = "active"
    /\ orig_qty # 0
    /\ Abs(amt) * 100 <= orig_qty * (100 - TP1_FRAC + TP1_TOL)

\* 3) confidence decay
ConfDecay(pos, sg) == decayed_conf(sg.conf, pos.age) < min_conf

\* the trade cycle is not at its logging step after place_order's return
CycleAtAwait == tc_pc # "returned"

\* `continue`: on to the next position
Continue ==
    /\ idx' = idx + 1
    /\ sw_pc' = "next"
    /\ p' = NoPosition
    /\ sig' = NoSig
    /\ reason' = ""
    /\ entry_price' = 0

\* the closure guard of a position that is to be closed for reason r, with the
\* ledger states st and the log so far: skip a symbol already CLOSING, else
\* set CLOSING and request the cancellation of its open orders
BeginClose(r, st, log) ==
    IF st[p.symbol] = "closing"
    THEN /\ Continue
         /\ _STATE' = st
         /\ slog' = log
    ELSE /\ _STATE' = [st EXCEPT ![p.symbol] = "closing"]
         /\ slog' = Append(log, Log("CANCEL_ALL"))
         /\ reason' = r
         /\ sw_pc' = "closing"
         /\ sig' = NoSig
         /\ entry_price' = 0
         /\ UNCHANGED <<idx, p>>

\* the decay rule and what follows it in the loop body
DecayThenClose(st, log) ==
    IF ConfDecay(p, sig)
    THEN BeginClose("CONF_DECAY", st, log)
    ELSE /\ Continue
         /\ _STATE' = st
         /\ slog' = log

\* manage_open_positions up to the position loop
manage_open_positions_start ==
    /\ sw_pc = "idle"
    /\ CycleAtAwait
    /\ idx' = 1
    /\ sw_pc' = "next"
    /\ UNCHANGED <<flip_threshold, p, sig, reason, entry_price, opp_side, closed, slog,
                   event>>
    /\ UNCHANGED <<ledger, PARTIAL_TP, others, tcvars>>

\* manage_open_positions is left: by its end or by an exception
SweepEnds ==
    /\ sw_pc' = "idle"
    /\ flip_threshold' = 0
    /\ idx' = 0
    /\ p' = NoPosition
    /\ sig' = NoSig
    /\ reason' = ""
    /\ entry_price' = 0
    /\ opp_side' = "unbound"
    /\ closed' = FALSE
    /\ slog' = <<>>
    /\ event' = NoEvent

\* sig_map.get(symbol) over the signal lists the sweep can fetch
SigsOf(symbol) == {m[symbol] : m \in SigMaps}

\* `for p in positions`: the next position with its amount and age, and the
\* sig_map entry of its symbol; a zero amount is skipped; the sweep ends
\* after the last position
sweep_next ==
    /\ sw_pc = "next"
    /\ CycleAtAwait
    /\ IF idx > Len(PositionSymbols)
       THEN SweepEnds
       ELSE \E amt \in Amounts, age \in Ages, sg \in SigsOf(PositionSymbols[idx]),
               flip \in FlipThresholds :
               /\ slog' = <<>>
               /\ event' = NoEvent
               /\ IF amt = 0
                  THEN /\ idx' = idx + 1
                       /\ UNCHANGED <<sw_pc, p, sig, flip_threshold>>
                  ELSE /\ p' = [symbol |-> PositionSymbols[idx], amt |-> amt, age |-> age]
                       /\ sig' = sg
                       /\ flip_threshold' = flip
                       /\ sw_pc' = "eval"
                       /\ UNCHANGED idx
               /\ UNCHANGED <<reason, entry_price, opp_side, closed>>
    /\ UNCHANGED <<ledger, PARTIAL_TP, others, tcvars>>

\* the rules for the position at hand, in the code's order, up to the first
\* broker call they lead to
sweep_eval ==
    /\ sw_pc = "eval"
    /\ CycleAtAwait
    /\ IF TimeStop(p)
       THEN BeginClose("TIME_STOP", _STATE, <<>>)
       ELSE IF sig = NoSig
       THEN /\ Continue
            /\ UNCHANGED <<_STATE, slog>>
       ELSE IF SignalFlip(p, sig, flip_threshold)
       THEN BeginClose("SIGNAL_FLIP", _STATE, <<>>)
       ELSE IF Tp1Hit(PARTIAL_TP, _STATE[p.symbol], _ORIG_QTY[p.symbol], p.amt)
       THEN /\ slog' = <<Log("TP1_HIT"), Log("CANCEL_ALL")>>
            /\ sw_pc' = "tp1_cancel"
            /\ UNCHANGED <<_STATE, idx, p, sig, reason, entry_price>>
       ELSE DecayThenClose(_STATE, <<>>)
    /\ flip_threshold' = 0
    /\ UNCHANGED <<opp_side, closed, event>>
    /\ UNCHANGED <<_ENTRY_PRICE, _ORIG_QTY, PARTIAL_TP, others, tcvars>>

\* TP1: the answer to the cancellation, then the ledger's entry price is read
\* and, when it is positive, rounded (exchange info)
sweep_tp1_cancel ==
    /\ sw_pc = "tp1_cancel"
    /\ CycleAtAwait
    /\ \E ok \in Answers :
          LET log == IF ok THEN slog ELSE Append(slog, Log("ERROR_CANCEL")) IN
          IF _ENTRY_PRICE[p.symbol] > 0
          THEN /\ entry_price' = _ENTRY_PRICE[p.symbol]
               /\ slog' = log
               /\ sw_pc' = "be_round"
               /\ UNCHANGED <<_STATE, idx, p, sig, reason>>
          ELSE DecayThenClose(_STATE, log)
    /\ UNCHANGED <<flip_threshold, opp_side, closed, event>>
    /\ UNCHANGED <<_ENTRY_PRICE, _ORIG_QTY, PARTIAL_TP, others, tcvars>>

\* TP1: the answer of the rounding, whose failure leaves manage_open_positions;
\* then the break-even stop.  Reading opp_side while it is unbound raises inside
\* the try block and is logged as ERROR_SL.  When it is bound the order goes out
\* with that (earlier position's) side; its answer is taken in the same step:
\* opp_side is bound only after a closure, which closed the connection.
sweep_breakeven ==
    /\ sw_pc = "be_round"
    /\ CycleAtAwait
    /\ \E round_ok \in Answers :
          IF ~round_ok
          THEN /\ SweepEnds
               /\ UNCHANGED _STATE
          ELSE /\ IF opp_side = "unbound"
                  THEN DecayThenClose(_STATE, Append(slog, Log("ERROR_SL")))
                  ELSE \E be_ok \in Answers :
                          DecayThenClose(
                            IF be_ok THEN [_STATE EXCEPT ![p.symbol] = "reducing"] ELSE _STATE,
                            slog \o <<Order("STOP_MARKET", opp_side, entry_price),
                                      Log(IF be_ok THEN "BREAKEVEN_SL_SET" ELSE "ERROR_SL")>>)
               /\ UNCHANGED <<flip_threshold, opp_side, closed, event>>
    /\ UNCHANGED <<_ENTRY_PRICE, _ORIG_QTY, PARTIAL_TP, others, tcvars>>

\* a faulty variant of SetClosed: the symbol is left CLOSING
KeepClosing(st, symbol) == st

\* the ledger after a closure's last statement, _set_state(symbol, CLOSED)
SetClosed(st, symbol) == [st EXCEPT ![symbol] = "closed"]

\* a faulty variant of ClosureSteps: the event is emitted before the order
EventBeforeOrder(cancel_ok, close_ok, amt) ==
    (IF cancel_ok THEN <<>> ELSE <<Log("ERROR_CANCEL")>>)
    \o <<Log("POSITION_CLOSED")>>
    \o <<Order("MARKET", CloseSide(amt), 0)>>
    \o (IF close_ok THEN <<>> ELSE <<Log("ERROR_CLOSE")>>)

\* what the closure does after the cancellation was requested: the error of
\* the cancellation, the market order with closePosition, its error, the
\* POSITION_CLOSED event
ClosureSteps(cancel_ok, close_ok, amt) ==
    (IF cancel_ok THEN <<>> ELSE <<Log("ERROR_CANCEL")>>)
    \o <<Order("MARKET", CloseSide(amt), 0)>>
    \o (IF close_ok THEN <<>> ELSE <<Log("ERROR_CLOSE")>>)
    \o <<Log("POSITION_CLOSED")>>

\* the closure after CLOSING: the answer to the cancellation, opp_side, the
\* market order that closes the position and its answer, the POSITION_CLOSED
\* event, close_connection, CLOSED
sweep_close ==
    /\ sw_pc = "closing"
    /\ CycleAtAwait
    /\ \E cancel_ok \in Answers, close_ok \in Answers :
          /\ slog' = slog \o ClosureSteps(cancel_ok, close_ok, p.amt)
          /\ event' = [symbol |-> p.symbol, reason |-> reason, close_accepted |-> close_ok]
    /\ opp_side' = CloseSide(p.amt)
    /\ closed' = TRUE
    /\ _STATE' = SetClosed(_STATE, p.symbol)
    /\ Continue
    /\ UNCHANGED flip_threshold
    /\ UNCHANGED <<_ENTRY_PRICE, _ORIG_QTY, PARTIAL_TP, others, tcvars>>

\* ------------------------------------------------------------ startup, halt
\* max_instances of an interval job: 1 where startup() says so, and the
\* scheduler's default, 1, for refresh_stale_orders
max_instances(job) == 1

\* startup(): the jobs are added, the scheduler starts, one trade_cycle task
\* is created beside the job
startup ==
    /\ ~started
    /\ started' = TRUE
    /\ direct_pending' = TRUE
    /\ UNCHANGED <<trading_enabled, cycle_pc, opened, running>>
    /\ UNCHANGED <<core, janvars, tiervars, dirvars>>

\* POST /halt
halt ==
    /\ started
    /\ trading_enabled' = FALSE
    /\ UNCHANGED <<started, direct_pending, cycle_pc, opened, running>>
    /\ UNCHANGED <<core, janvars, tiervars, dirvars>>

\* a faulty variant of Halted: the flag is ignored
NeverHalted(flag) == FALSE

\* `if not trading_enabled: return` at the top of trade_cycle
Halted(flag) == ~flag

\* a trade_cycle invocation begins: the created task once, right after
\* startup; the job, an interval later, whenever the scheduler has no instance
\* of it running; it returns at once when trading is halted
cycle_begin(t) ==
    /\ started
    /\ IF t = "direct" THEN direct_pending ELSE (cycle_pc[t] = "none" /\ ~direct_pending)
    /\ direct_pending' = (IF t = "direct" THEN FALSE ELSE direct_pending)
    /\ IF Halted(trading_enabled)
       THEN UNCHANGED <<cycle_pc, opened>>
       ELSE /\ cycle_pc' = [cycle_pc EXCEPT ![t] = "fetch"]
            /\ opened' = [opened EXCEPT ![t] = 0]
    /\ UNCHANGED <<trading_enabled, started, running>>
    /\ UNCHANGED <<core, janvars, tiervars, dirvars>>

\* fetch_signals answers: without signals the invocation returns
cycle_fetch(t) ==
    /\ cycle_pc[t] = "fetch"
    /\ \E any \in BOOLEAN :
          cycle_pc' = [cycle_pc EXCEPT ![t] = IF any THEN "loop" ELSE "none"]
    /\ UNCHANGED <<trading_enabled, started, direct_pending, opened, running>>
    /\ UNCHANGED <<core, janvars, tiervars, dirvars>>

\* one place_order call of the loop: it returns and opened is counted, or it
\* raises and the invocation ends
cycle_place(t) ==
    /\ cycle_pc[t] = "loop"
    /\ opened[t] < MaxOpened
    /\ \E ok \in BOOLEAN :
          IF ok
          THEN /\ opened' = [opened EXCEPT ![t] = @ + 1]
               /\ UNCHANGED cycle_pc
          ELSE /\ cycle_pc' = [cycle_pc EXCEPT ![t] = "none"]
               /\ UNCHANGED opened
    /\ UNCHANGED <<trading_enabled, started, direct_pending, running>>
    /\ UNCHANGED <<core, janvars, tiervars, dirvars>>

\* the signal list is used up
cycle_end(t) ==
    /\ cycle_pc[t] = "loop"
    /\ cycle_pc' = [cycle_pc EXCEPT ![t] = "none"]
    /\ UNCHANGED <<trading_enabled, started, direct_pending, opened, running>>
    /\ UNCHANGED <<core, janvars, tiervars, dirvars>>

\* the scheduler starts an instance of an interval job unless max_instances
\* of it are running
job_begin(j) ==
    /\ started
    /\ running[j] < max_instances(j)
    /\ running' = [running EXCEPT ![j] = @ + 1]
    /\ UNCHANGED <<trading_enabled, started, direct_pending, cycle_pc, opened>>
    /\ UNCHANGED <<core, janvars, tiervars, dirvars>>

\* an instance of an interval job ends
job_end(j) ==
    /\ running[j] > 0
    /\ running' = [running EXCEPT ![j] = @ - 1]
    /\ UNCHANGED <<trading_enabled, started, direct_pending, cycle_pc, opened>>
    /\ UNCHANGED <<core, janvars, tiervars, dirvars>>

\* ------------------------------------------------------------ refresh_stale_orders
\* client order ids are sequences of characters
CLIENT_PREFIX == <<"B", "O", "T">>

\* str.startswith
startswith(str, prefix) ==
    /\ Len(str) >= Len(prefix)
    /\ SubSeq(str, 1, Len(prefix)) = prefix

\* client ids of open orders: an entry (BOT-1), its stop (BOT-1-SL) and
\* take-profit (BOT-1-TP), the break-even stop (BE-SL-1), an order placed by
\* hand, and an order without the field
ClientIds ==
    {<<"B", "O", "T", "-", "1">>,
     <<"B", "O", "T", "-", "1", "-", "S", "L">>,
     <<"B", "O", "T", "-", "1", "-", "T", "P">>,
     <<"B", "E", "-", "S", "L", "-", "1">>,
     <<"w", "e", "b">>,
     <<>>}
OrderTypes == {"LIMIT", "STOP_MARKET", "TAKE_PROFIT_MARKET"}
\* minutes since an order's updateTime
OrderAges == {14, 15}
OpenOrders == [clientOrderId : ClientIds, type : OrderTypes, age_min : OrderAges]
OrderLists == UNION {[1..n -> OpenOrders] : n \in 0..MaxOrders}

\* a faulty variant of Stale: the order type is not looked at
StaleAnyType(o) ==
    /\ startswith(o.clientOrderId, CLIENT_PREFIX)
    /\ ~(o.age_min < max_age_min)

\* the three tests an order has to pass before it is cancelled
Stale(o) ==
    /\ startswith(o.clientOrderId, CLIENT_PREFIX)
    /\ ~(o.type # "LIMIT")
    /\ ~(o.age_min < max_age_min)

\* refresh_stale_orders up to its loop: the open orders are fetched
refresh_start ==
    /\ j_pc = "idle"
    /\ \E orders \in OrderLists : open_orders' = orders
    /\ j_idx' = 1
    /\ cancels' = <<>>
    /\ j_pc' = "loop"
    /\ UNCHANGED <<core, schedvars, tiervars, dirvars>>

\* one turn of `for o in open_orders`: an order that passes the tests is
\* cancelled, and a cancellation that raises is passed over; after the last
\* order the connection is closed
refresh_next ==
    /\ j_pc = "loop"
    /\ IF j_idx > Len(open_orders)
       THEN /\ j_pc' = "idle"
            /\ open_orders' = <<>>
            /\ j_idx' = 0
            /\ cancels' = <<>>
       ELSE /\ j_idx' = j_idx + 1
            /\ j_pc' = "loop"
            /\ IF Stale(open_orders[j_idx])
               THEN \E ok \in BOOLEAN :
                       cancels' = Append(cancels, [index |-> j_idx, ok |-> ok])
               ELSE UNCHANGED cancels
            /\ UNCHANGED open_orders
    /\ UNCHANGED <<core, schedvars, tiervars, dirvars>>

\* ------------------------------------------------------------ tier selection
\* confidence values, in 1e-5: a grid ten times finer than the table's bounds,
\* from below the threshold to above 1.0
Confidences == MinConf..MaxConf

\* _select_tier is called with the value as it is (the unit test does so)
select_tier_call ==
    /\ t_pc = "emitted"
    /\ tier' = _select_tier(t_conf)
    /\ t_pc' = "selected"
    /\ UNCHANGED t_conf
    /\ UNCHANGED <<core, schedvars, janvars, dirvars>>

\* fetch_signals keeps a signal whose confidence is at least the threshold
fetch_filter ==
    /\ t_pc = "emitted"
    /\ t_pc' = (IF t_conf >= ConfThreshold THEN "valid" ELSE "dropped")
    /\ UNCHANGED <<t_conf, tier>>
    /\ UNCHANGED <<core, schedvars, janvars, dirvars>>

\* trade_cycle hands a kept signal to risk_check
risk_check_call ==
    /\ t_pc = "valid"
    /\ tier' = risk_check([symbol |-> "BTCUSDT", side |-> <<"B", "U", "Y">>, confidence |-> t_conf])
    /\ t_pc' = "checked"
    /\ UNCHANGED t_conf
    /\ UNCHANGED <<core, schedvars, janvars, dirvars>>

\* ------------------------------------------------------------ side flags
\* a letter's lower-case form
LowerChar(ch) ==
    IF \E i \in 1..Len(UpperCase) : UpperCase[i] = ch
    THEN LowerCase[CHOOSE i \in 1..Len(UpperCase) : UpperCase[i] = ch]
    ELSE ch

\* a word written with any mix of capitals and lower-case letters
Spellings(word) ==
    {[i \in 1..Len(word) |-> IF i \in low THEN LowerChar(word[i]) ELSE word[i]] :
        low \in SUBSET (1..Len(word))}

\* flags that are no spelling of a valid flag: empty, unknown words, a valid
\* flag with a blank, a letter or a digit too many, two flags in one
OtherFlags ==
    {<<>>, <<"f", "o", "o">>, <<"B", "U", "Y", " ">>, <<" ", "b", "u", "y">>,
     <<"B", "U", "Y", "S">>, <<"B", "U">>, <<"L", "O", "N", "G", "1">>,
     <<"1">>, <<"-">>, <<"H", "O", "L", "D">>, <<"n", "o", "n", "e">>,
     <<"L", "O", "N", "G", "S", "H", "O", "R", "T">>,
     <<"S", "H", "O", "R", "T", "L", "O", "N", "G">>}

\* the flags _direction is called with
Flags ==
    UNION {Spellings(w) : w \in _VALID_LONG_FLAGS \cup _VALID_SHORT_FLAGS}
    \cup OtherFlags \cup {MissingFlag}

\* _direction is called with the flag
direction_call ==
    /\ d_pc = "given"
    /\ d_dir' = _direction(d_flag)
    /\ d_pc' = "returned"
    /\ UNCHANGED d_flag
    /\ UNCHANGED <<core, schedvars, janvars, tiervars>>

\* ------------------------------------------------------------ specification
Next ==
    \/ trade_cycle_start
    \/ trade_cycle_next
    \/ place_order_direct
    \/ place_order_finish
    \/ trade_cycle_resume
    \/ manage_open_positions_start
    \/ sweep_next
    \/ sweep_eval
    \/ sweep_tp1_cancel
    \/ sweep_breakeven
    \/ sweep_close

Spec == Init /\ [][Next]_vars

\* the application from its start: startup, the scheduler's jobs, halt
SchedInit ==
    /\ CoreIdle
    /\ PARTIAL_TP = FALSE
    /\ trading_enabled = TRUE
    /\ started = FALSE
    /\ direct_pending = FALSE
    /\ cycle_pc = [t \in CycleTasks |-> "none"]
    /\ opened = [t \in CycleTasks |-> 0]
    /\ running = [j \in Jobs |-> 0]
    /\ JanitorIdle
    /\ TierIdle
    /\ DirIdle

SchedNext ==
    \/ startup
    \/ halt
    \/ \E t \in CycleTasks : cycle_begin(t)
    \/ \E t \in CycleTasks : cycle_fetch(t)
    \/ \E t \in CycleTasks : cycle_place(t)
    \/ \E t \in CycleTasks : cycle_end(t)
    \/ \E j \in Jobs : job_begin(j)
    \/ \E j \in Jobs : job_end(j)

SchedSpec == SchedInit /\ [][SchedNext]_vars

\* the stale-order janitor by itself
JanitorInit ==
    /\ CoreIdle
    /\ PARTIAL_TP = FALSE
    /\ SchedIdle
    /\ JanitorIdle
    /\ TierIdle
    /\ DirIdle

JanitorNext ==
    \/ refresh_start
    \/ refresh_next

JanitorSpec == JanitorInit /\ [][JanitorNext]_vars

\* one confidence value on its way through the filter and the tier table
TierInit ==
    /\ CoreIdle
    /\ PARTIAL_TP = FALSE
    /\ SchedIdle
    /\ JanitorIdle
    /\ t_conf \in Confidences
    /\ t_pc = "emitted"
    /\ tier = NoTier
    /\ DirIdle

TierNext ==
    \/ select_tier_call
    \/ fetch_filter
    \/ risk_check_call

TierSpec == TierInit /\ [][TierNext]_vars

\* one side flag on its way through _direction
DirInit ==
    /\ CoreIdle
    /\ PARTIAL_TP = FALSE
    /\ SchedIdle
    /\ JanitorIdle
    /\ TierIdle
    /\ d_flag \in Flags
    /\ d_pc = "given"
    /\ d_dir = "None"

DirNext == direction_call

DirSpec == DirInit /\ [][DirNext]_vars

\* ------------------------------------------------------------ properties
\* a step in which place_order is called: its signal argument gets bound
PlaceOrderCalled == tc_pc \in {"idle", "loop"} /\ signal' # NoSignal

\* a step in which place_order ends after its entry order
PlaceOrderEnds == tc_pc = "entry" /\ tc_pc' = "returned"

\* C1: a place_order call for a symbol whose ledger state is OPENING is a
\* no-op: it makes no broker call of any kind and sends no order, and the
\* symbol's ledger record (state, entry price, original quantity) is the same
\* after the call as before it.
C1_OpeningIsNoOp ==
    [][(PlaceOrderCalled /\ _STATE[signal'.symbol] = "opening")
         => (pcalls' = <<>> /\ porders' = <<>> /\ UNCHANGED ledger)]_vars

\* C2: a place_order call for a symbol whose ledger state is OPENING or
\* CLOSING sends no entry and no protective order, leaves the lifecycle state
\* unchanged, and returns the empty result.
C2_BlockedReturnsEmpty ==
    [][(PlaceOrderCalled /\ _STATE[signal'.symbol] \in {"opening", "closing"})
         => (porders' = <<>> /\ UNCHANGED _STATE /\ tc_pc' = "returned"
             /\ pres' = "blocked")]_vars

\* C3: a successful placement has sent exactly three orders, in this order:
\* the entry order, one STOP_MARKET order, one TAKE_PROFIT_MARKET order, the
\* two on the side opposite to the entry.  The ledger state is OPENING in the
\* step that sends the entry order, and only a placement's last step, with
\* both protective orders accepted, makes a symbol ACTIVE.
C3_SuccessfulPlacement ==
    [][/\ (porders = <<>> /\ porders' # <<>>)
            => /\ Len(porders') = 1
               /\ porders'[1].type \in {"MARKET", "LIMIT"}
               /\ _STATE'[signal'.symbol] = "opening"
       /\ (PlaceOrderEnds /\ pres' = "ok")
            => /\ Len(porders') = 3
               /\ porders'[1] = porders[1]
               /\ porders'[1].side = (IF _direction(signal.side) = "LONG" THEN "BUY" ELSE "SELL")
               /\ porders'[2].type = "STOP_MARKET"
               /\ porders'[3].type = "TAKE_PROFIT_MARKET"
               /\ porders'[2].side # porders'[1].side
               /\ porders'[3].side # porders'[1].side
               /\ errors' = <<>>
               /\ _STATE'[signal.symbol] = "active"
       /\ \A s \in Symbols :
            (_STATE[s] # "active" /\ _STATE'[s] = "active")
            => /\ PlaceOrderEnds
               /\ s = signal.symbol
               /\ pres' = "ok"
               /\ errors' = <<>>
               /\ Len(porders') = 3]_vars

\* C3 witness: a placement has just succeeded with its three orders sent
C3_Placed ==
    /\ tc_pc = "returned"
    /\ pres = "ok"
    /\ Len(porders) = 3
    /\ _STATE[signal.symbol] = "active"

\* C4: when a protective order fails after the entry order, the other one is
\* still attempted (the stop order always goes out; after a failed stop the
\* take-profit block still runs), place_order raises the first protective
\* error, and nothing but the stop and the take-profit order follows the
\* entry order, which stays as sent.
C4_ProtectiveFailure ==
    [][(PlaceOrderEnds /\ errors' # <<>>)
         => /\ Len(porders') \in {2, 3}
            /\ porders'[1] = porders[1]
            /\ porders'[2].type = "STOP_MARKET"
            /\ Len(porders') = 3 => porders'[3].type = "TAKE_PROFIT_MARKET"
            /\ errors'[1] = "SL" => (Len(porders') = 3 \/ errors' = <<"SL", "TP">>)
            /\ pres' = (IF errors'[1] = "SL" THEN "SLError" ELSE "TPError")
            /\ UNCHANGED ledger]_vars

\* C4 witness: the stop order was rejected, the take-profit order was still
\* sent and rejected too, and place_order raised the stop order's error
C4_BothRejected ==
    /\ tc_pc = "returned"
    /\ errors = <<"SL", "TP">>
    /\ Len(porders) = 3
    /\ pres = "SLError"

\* C5: a place_order call whose signal has no recognized side fails with the
\* invalid-direction error (ValueError) and sends no order.
C5_InvalidDirection ==
    [][(PlaceOrderCalled /\ _direction(signal'.side) = "None")
         => (tc_pc' = "returned" /\ pres' = "ValueError" /\ porders' = <<>>)]_vars

\* C6: the two tasks exclude each other per symbol: the sweep is never in a
\* closure (CLOSING set, close order not yet answered) of a symbol for which
\* place_order stands between setting OPENING and setting ACTIVE, whichever
\* of the two got there first.
C6_MutualExclusion ==
    ~(tc_pc = "entry" /\ sw_pc = "closing" /\ p.symbol = signal.symbol)

\* C7 as stated: in every reachable state at most one symbol has ledger state
\* OPENING or CLOSING.
C7_AtMostOneBusy ==
    Cardinality({s \in Symbols : _STATE[s] \in {"opening", "closing"}}) <= 1

\* C7 amended: at most one symbol has ledger state CLOSING, and it is the one
\* the sweep is closing; OPENING is not exclusive.
C7_AtMostOneClosing ==
    /\ Cardinality({s \in Symbols : _STATE[s] = "closing"}) <= 1
    /\ \A s \in Symbols :
         _STATE[s] = "closing" => (sw_pc = "closing" /\ p.symbol = s)

\* C7 witness: a symbol is CLOSING while another one is OPENING
C7_ClosingBesideOpening ==
    \E s1, s2 \in Symbols :
        /\ s1 # s2
        /\ _STATE[s1] = "closing"
        /\ _STATE[s2] = "opening"

\* a step of the sweep that takes the closure it is in to its end
ClosureEnds == sw_pc = "closing" /\ sw_pc' # "closing"

C10_BreakEvenStop ==
    [][(/\ sw_pc = "be_round"
        /\ \A i \in 1..Len(slog) : slog[i].kind # "ERROR_CANCEL"
        /\ ~ConfDecay(p, sig)
        /\ sw_pc' \notin {"be_round", "idle"})
         => /\ \E i \in 1..Len(slog') :
                  /\ slog'[i].kind = "STOP_MARKET"
                  /\ slog'[i].price = entry_price
            /\ _STATE'[p.symbol] = "reducing"
            /\ sw_pc' = "next"]_vars

\* a sweep step that ends the rules for the position at hand: the last of
\* eval, the TP1 cancellation and the break-even stop
RulesEnd ==
    /\ sw_pc \in {"eval", "tp1_cancel", "be_round"}
    /\ sw_pc' \notin {sw_pc, "tp1_cancel", "be_round"}

\* C11: a position that the sweep evaluates, that is below the time stop and
\* not flipped and whose symbol is not already CLOSING, enters the closure
\* with reason CONF_DECAY exactly when its symbol has a latest signal whose
\* confidence, decayed over the position's age, is below min_conf; without a
\* signal the sweep goes on to the next position.
C11_ConfDecay ==
    [][(/\ RulesEnd
        /\ ~TimeStop(p)
        /\ _STATE[p.symbol] # "closing"
        /\ sw_pc = "eval" => (sig = NoSig \/ ~SignalFlip(p, sig, flip_threshold)))
         => /\ (sw_pc' = "closing" /\ reason' = "CONF_DECAY")
                  <=> (sig # NoSig /\ decayed_conf(sig.conf, p.age) < min_conf)
            /\ sig = NoSig => (sw_pc' = "next" /\ idx' = idx + 1)]_vars

\* the positions in a log at which an entry of the given kind stands
At(log, kind) == {i \in 1..Len(log) : log[i].kind = kind}

C13_SweepGoesOn ==
    [][/\ (sw_pc # "idle" /\ sw_pc' = "idle") => idx > Len(PositionSymbols)
       /\ ClosureEnds => ~closed]_vars

\* C14: when place_order, called by the trade cycle, ends with a broker
\* failure (a failed sizing or entry call, a failed protective order) while
\* signals of the cycle remain, the cycle goes back to its loop with the same
\* signals remaining, so that each of them is still checked and placed.
C14_LaterSignalsPlaced ==
    [][(/\ tc_pc = "returned"
        /\ tc_pc' # "returned"
        /\ caller = "cycle"
        /\ pres \in {"BrokerError", "SLError", "TPError"}
        /\ remaining > 0)
         => (tc_pc' = "loop" /\ remaining' = remaining)]_vars

C16_NonReentrant ==
    /\ Cardinality({t \in CycleTasks : cycle_pc[t] # "none"}) <= 1
    /\ \A j \in Jobs : running[j] <= 1

\* C17: the flag never returns to enabled, and halting again changes nothing;
\* a trade_cycle invocation that begins while the flag is off stays at its
\* first statement: it fetches nothing and places nothing; the halt command
\* leaves the invocations and jobs under way as they are, and an invocation
\* in its loop can still place an order whatever the flag says; the interval
\* jobs can be started whatever the flag says.
C17_Halt ==
    /\ [][/\ trading_enabled' => trading_enabled
          /\ \A t \in CycleTasks :
                /\ (~trading_enabled /\ cycle_pc[t] = "none")
                      => (cycle_pc'[t] = "none" /\ opened'[t] = opened[t])
                /\ opened'[t] > opened[t] => cycle_pc[t] = "loop"
          /\ (trading_enabled /\ ~trading_enabled')
                => UNCHANGED <<cycle_pc, opened, running, direct_pending>>]_vars
    /\ [](\A t \in CycleTasks :
             (cycle_pc[t] = "loop" /\ opened[t] < MaxOpened) => ENABLED cycle_place(t))
    /\ [](\A j \in Jobs :
             (started /\ running[j] = 0) => ENABLED job_begin(j))

\* trading is halted while an invocation of trade_cycle is in its loop and
\* no sweep is running
C17_HaltedInFlight ==
    /\ ~trading_enabled
    /\ \E t \in CycleTasks : cycle_pc[t] = "loop" /\ opened[t] < MaxOpened
    /\ running["manage_open_positions"] = 0
    /\ running["refresh_stale_orders"] = 0

\* C18: every order the janitor asks the broker to cancel has a client id
\* that begins with BOT, has type LIMIT, hence is no STOP_MARKET and no
\* TAKE_PROFIT_MARKET order, and is at least max_age_min old; and whatever
\* the earlier cancellations answered, every such order the loop has passed
\* was asked to be cancelled once.
C18_Janitor ==
    /\ \A k \in 1..Len(cancels) :
          LET o == open_orders[cancels[k].index] IN
          /\ Len(o.clientOrderId) >= 3
          /\ <<o.clientOrderId[1], o.clientOrderId[2], o.clientOrderId[3]>> = <<"B", "O", "T">>
          /\ o.type = "LIMIT"
          /\ o.type \notin {"STOP_MARKET", "TAKE_PROFIT_MARKET"}
          /\ o.age_min >= 15
    /\ \A i \in 1..Len(open_orders) :
          (/\ i < j_idx
           /\ Len(open_orders[i].clientOrderId) >= 3
           /\ SubSeq(open_orders[i].clientOrderId, 1, 3) = <<"B", "O", "T">>
           /\ open_orders[i].type = "LIMIT"
           /\ open_orders[i].age_min >= 15)
             => Cardinality({k \in 1..Len(cancels) : cancels[k].index = i}) = 1

\* the janitor's loop has passed its last order after a cancellation that
\* failed and a later cancellation
C18_FailedThenCancelled ==
    /\ j_pc = "loop"
    /\ j_idx > Len(open_orders)
    /\ \E k \in 1..Len(cancels) : ~cancels[k].ok /\ k < Len(cancels)

\* the rows of the table whose inclusive range holds a confidence value
RowsHolding(c) == {i \in 1..Len(_TIERS) : _TIERS[i].lo <= c /\ c <= _TIERS[i].hi}

\* C19: for every confidence value, _select_tier returns None exactly when no
\* row's inclusive range holds the value, and otherwise the parameters of a
\* row whose range holds it, with that row's take-profit percentage; the
\* ranges are pairwise disjoint, so every row that holds the value gives the
\* same result, in whatever order the rows are tried.
C19_SelectTier ==
    /\ \A i, j \in 1..Len(_TIERS) :
          i # j => (_TIERS[i].hi < _TIERS[j].lo \/ _TIERS[j].hi < _TIERS[i].lo)
    /\ t_pc = "selected"
          => /\ tier = NoTier <=> RowsHolding(t_conf) = {}
             /\ \A i \in RowsHolding(t_conf) :
                   /\ tier = TierOf(_TIERS[i])
                   /\ tier.tp_pct = _TIERS[i].tp_pct

\* _select_tier(0.65) has returned the 0.60 band with take-profit 0.013
C19_Selected ==
    /\ t_pc = "selected"
    /\ t_conf = 65000
    /\ tier.tp_pct = 13

\* C20: every confidence value from the threshold to 1.0 that fetch_signals
\* keeps gets a tier from risk_check.
C20_NoGaps ==
    (t_pc = "checked" /\ t_conf <= 100000) => tier # NoTier

\* a flag that is a word up to the case of its letters
SpelledAs(flag, word) ==
    /\ flag # MissingFlag
    /\ Len(flag) = Len(word)
    /\ \A i \in 1..Len(word) :
          \/ flag[i] = word[i]
          \/ \E k \in 1..26 : LowerCase[k] = flag[i] /\ UpperCase[k] = word[i]

\* C21: _direction returns LONG exactly for the flags that spell LONG, BUY,
\* BULL or BULLISH in any mix of capitals and lower-case letters, SHORT
\* exactly for those that spell SHORT, SELL, BEAR or BEARISH, and None for
\* every other flag, the empty and the missing one included; no flag spells
\* a word of both groups.
C21_Direction ==
    d_pc = "returned"
       => LET long == \E w \in {<<"L", "O", "N", "G">>, <<"B", "U", "Y">>,
                                 <<"B", "U", "L", "L">>,
                                 <<"B", "U", "L", "L", "I", "S", "H">>} :
                          SpelledAs(d_flag, w)
              short == \E w \in {<<"S", "H", "O", "R", "T">>, <<"S", "E", "L", "L">>,
                                  <<"B", "E", "A", "R">>,
                                  <<"B", "E", "A", "R", "I", "S", "H">>} :
                          SpelledAs(d_flag, w)
          IN /\ ~(long /\ short)
             /\ d_dir = "LONG" <=> long
             /\ d_dir = "SHORT" <=> short
             /\ d_dir = "None" <=> ~(long \/ short)
             /\ d_flag \in {<<>>, MissingFlag} => d_dir = "None"

\* _direction("bearish") has returned SHORT
C21_LowerCaseShort ==
    /\ d_pc = "returned"
    /\ d_flag = <<"b", "e", "a", "r", "i", "s", "h">>
    /\ d_dir = "SHORT"

\* C22: when place_order ends after the broker answered its entry order, the
\* ledger's entry price of the symbol is the avgPrice of that answer when it
\* carries one, and the mark price the order was sized with otherwise; the
\* break-even step of the sweep reads its price from that ledger entry.
C22_EntryPriceIsFill ==
    [][/\ (PlaceOrderEnds /\ pres' \in {"ok", "SLError", "TPError"})
            => _ENTRY_PRICE'[signal.symbol]
                  = (IF entry_resp' > 0 THEN entry_resp' ELSE _ENTRY_PRICE[signal.symbol])
       /\ (sw_pc = "tp1_cancel" /\ sw_pc' = "be_round")
            => entry_price' = _ENTRY_PRICE[p.symbol]]_vars


\* C23: the rules are applied in the order time stop, signal flip, partial-TP
\* detection, confidence decay, and partial-TP detection depends only on the
\* ladder mode, the ledger state and the remaining amount: a position below
\* the time stop that is not closed for a flip and for which Tp1Hit holds is
\* logged as TP1_HIT by the rules, also when its symbol has no latest signal;
\* a position at or past the time stop, or flipped, is never logged so.
C23_Tp1WithoutSignal ==
    [][sw_pc = "eval" /\ sw_pc' # "eval"
         => LET flipped == sig # NoSig /\ SignalFlip(p, sig, flip_threshold)
                hit == Tp1Hit(PARTIAL_TP, _STATE[p.symbol], _ORIG_QTY[p.symbol], p.amt)
            IN  /\ TimeStop(p) => reason' = "TIME_STOP" /\ At(slog', "TP1_HIT") = {}
                /\ (~TimeStop(p) /\ flipped)
                      => reason' = "SIGNAL_FLIP" /\ At(slog', "TP1_HIT") = {}
                /\ (~TimeStop(p) /\ ~flipped)
                      => (hit <=> At(slog', "TP1_HIT") # {})]_vars


\* the place of a ledger state on OPENING -> ACTIVE -> REDUCING -> CLOSING ->
\* CLOSED
Rank(st) ==
    CASE st = "opening" -> 1 [] st = "active" -> 2 [] st = "reducing" -> 3
      [] st = "closing" -> 4 [] st = "closed" -> 5 [] OTHER -> 0

\* C24: in every step of placements and sweeps, a symbol's ledger state either
\* stays, or moves forward along OPENING -> ACTIVE -> REDUCING -> CLOSING ->
\* CLOSED, or starts a new OPENING from CLOSED (a symbol without a record has
\* no place on the chain and may take any first state); so the state never
\* goes from CLOSING or CLOSED to ACTIVE, and never from ACTIVE or REDUCING
\* back to OPENING.
C24_ForwardOnly ==
    [][\A s \in Symbols :
          \/ Rank(_STATE'[s]) >= Rank(_STATE[s])
          \/ _STATE[s] = "closed" /\ _STATE'[s] = "opening"]_vars

\* C25: OPENING is transient: when a place_order call that set its symbol to
\* OPENING ends, by returning or by raising (entry order rejected, or a
\* protective order failed), the symbol's ledger state is not OPENING; and a
\* place_order call made when no placement is under way is never turned away
\* by the duplicate guard for a symbol left in OPENING.
C25_OpeningIsTransient ==
    [][/\ PlaceOrderEnds => _STATE'[signal.symbol] # "opening"
       /\ (PlaceOrderCalled /\ pres' = "blocked")
            => _STATE[signal'.symbol] # "opening"]_vars


\* C26: a step that sets a symbol's ledger state to CLOSED, or that emits a
\* POSITION_CLOSED event, belongs to a closure whose market close order went
\* out before the event and was accepted by the broker: the closure logged no
\* ERROR_CLOSE.  A closure whose close order is rejected neither reports nor
\* records the symbol as closed.
C26_ClosedOnlyWhenAccepted ==
    [][(\/ \E s \in Symbols : _STATE'[s] = "closed" /\ _STATE[s] # "closed"
        \/ ~(At(slog', "POSITION_CLOSED") \subseteq At(slog, "POSITION_CLOSED")))
         => /\ sw_pc = "closing"
            /\ \E i \in At(slog', "MARKET") :
                  \A j \in At(slog', "POSITION_CLOSED") : i < j
            /\ At(slog', "ERROR_CLOSE") = {}
            /\ event'.close_accepted]_vars


\* C27: a place_order call with a valid side flag for a symbol whose ledger
\* state is ACTIVE or REDUCING sends no entry order and leaves the symbol's
\* recorded entry price and original quantity as they were, whoever calls it
\* and however often a cycle's signal list names the symbol.
C27_NoSecondEntry ==
    [][(/\ PlaceOrderCalled
        /\ _STATE[signal'.symbol] \in {"active", "reducing"}
        /\ _direction(signal'.side) # "None")
         => /\ porders' = <<>>
            /\ _ENTRY_PRICE'[signal'.symbol] = _ENTRY_PRICE[signal'.symbol]
            /\ _ORIG_QTY'[signal'.symbol] = _ORIG_QTY[signal'.symbol]]_vars

====
